---- MODULE Spec2Model ----
(***************************************************************************)
(* The bootstrap of the waxosuit host binary                               *)
(* (waxosuit-host/src/bin/waxosuit.rs): main reads the module file,        *)
(* extracts and validates the embedded claims token, optionally asks an    *)
(* Open Policy Agent endpoint, and start() publishes the claims to CAPMAN, *)
(* scans the capability directory, starts the mux and parks.               *)
(*                                                                         *)
(* The environment (file system, wascap verifier, HTTP service, plugin     *)
(* libraries, mux) answers each call of the bootstrap thread with one of   *)
(* the outcomes the call can produce; the answer is drawn when the call is *)
(* made and kept in the state so that properties can refer to it.  Once    *)
(* the mux runs, a thread of the host takes and drops read guards on       *)
(* CAPMAN next to the bootstrap thread.                                    *)
(***************************************************************************)
EXTENDS Integers, Sequences, FiniteSets, TLC

\* ------------------------------------------------------------------ bounds

\* Largest number of items the read_dir iterator yields in one scan.
MaxEntries == 3

\* ------------------------------------------------------- program constants

\* reqwest::StatusCode::OK, the only status post_json accepts.
StatusOK == 200

\* ------------------------------------------------------------ input domains

NoValue == "-"

\* Human-readable instants the verifier reports (not_before_human,
\* expires_human).
Instants == {"t1", "t2"}

\* claims.caps : Option<Vec<String>>; some = FALSE is None.
NoCaps == [some |-> FALSE, list |-> <<>>]

CapsLists ==
    {NoCaps} \cup [some : {TRUE}, list : {<<>>, <<"messaging">>, <<"messaging", "kv">>}]

\* HTTP statuses the policy service may answer with.
Statuses == {100, 200, 201, 299, 300, 404, 500}

\* Response bodies: a reply with allow true, with allow false, and a body
\* that is no OpaReply.
Bodies == {"{allow:true}", "{allow:false}", "garbage"}

\* What client.post(..).send() and response.text() can yield.
Responses ==
    [send : {"ok"}, text : {"ok"}, status : Statuses, body : Bodies]
      \cup [send : {"ok"}, text : {"err"}, status : Statuses, body : {NoValue}]
      \cup [send : {"err"}, text : {NoValue}, status : {0}, body : {NoValue}]

NoResponse == [send |-> NoValue, text |-> NoValue, status |-> 0, body |-> NoValue]

\* validate_token's TokenValidation: the two flags are computed
\* independently by the verifier, so every combination can occur.  The
\* instants are read only by the rejecting branches: a rejection comes with
\* every pair of instants, a usable token with one pair.
Validations ==
    {v \in [cannot_use_yet : BOOLEAN, expired : BOOLEAN,
            not_before_human : Instants, expires_human : Instants] :
        \/ v.cannot_use_yet
        \/ v.expired
        \/ v.not_before_human = "t1" /\ v.expires_human = "t2"}

NoValidation ==
    [cannot_use_yet |-> FALSE, expired |-> FALSE,
     not_before_human |-> NoValue, expires_human |-> NoValue]

\* Items the read_dir iterator can yield.  kind "ioerr" is an Err item;
\* ext is path.extension(): "none" when the path has none, "nonutf8" when
\* it is not valid UTF-8; load is what load_plugin answers for the path and
\* capid the capability id a loaded provider reports.
DirItems ==
    [kind : {"file"}, ext : {"so"}, load : {"ok"}, capid : {"messaging", "kv"}]
      \cup [kind : {"file"}, ext : {"dylib"}, load : {"ok"}, capid : {"messaging"}]
      \cup [kind : {"file"}, ext : {"so"}, load : {"err"}, capid : {NoValue}]
      \cup [kind : {"file"}, ext : {"txt", "none", "nonutf8"}, load : {NoValue}, capid : {NoValue}]
      \cup [kind : {"dir"}, ext : {"so", "none"}, load : {NoValue}, capid : {NoValue}]
      \cup [kind : {"ioerr"}, ext : {NoValue}, load : {NoValue}, capid : {NoValue}]

\* Threads of the running host that look capabilities up in CAPMAN.
HostThreads == {"h1"}

\* ------------------------------------------------------------------- state

VARIABLES
    pc,            \* position of the bootstrap (main) thread
    opa_url,       \* args.opa_url: "None" or "Some"
    token,         \* outcome of extract_claims: "unread", "Err", "None" or "Some"
    claims,        \* token.claims.caps when token is "Some", NoCaps otherwise
    validate_res,  \* validate_token's answer, NoValidation before / on error
    validate_ok,   \* "unread", "Ok" or "Err"
    response,      \* the policy service's answer, NoResponse before
    opa_result,    \* result of check_token_with_opa: "pending", "Ok" or an error
    requests,      \* number of POSTs sent
    capman,        \* CAPMAN's contents: [claims_set, claims, plugins]
    rwlock,        \* CAPMAN's RwLock: [writer : BOOLEAN, readers : Nat]
    caps_dir,      \* what caps_dir.is_dir() / read_dir found: "unread", "missing", "file", "dir", "unreadable"
    seen,          \* items yielded by read_dir so far
    attempts,      \* indices into seen of the load_plugin calls made
    host_started,  \* start_mux returned Ok
    events,        \* registry calls made, in order
    stderr,        \* diagnostics on the error stream, in order
    log,           \* info! records, in order
    exit,          \* process result: "running", "Ok", "Err" or "panic"
    host           \* per thread of the started host: "idle" or "read" (holds a read guard)

vars == <<pc, opa_url, token, claims, validate_res, validate_ok, response, opa_result,
          requests, capman, rwlock, caps_dir, seen, attempts, host_started,
          events, stderr, log, exit, host>>

\* The variables the bootstrap thread writes; the lock and the host's
\* threads are shared with, or belong to, the running host.
bootVars == <<pc, opa_url, token, claims, validate_res, validate_ok, response,
              opa_result, requests, capman, caps_dir, seen, attempts,
              host_started, events, stderr, log, exit>>

mainVars == <<token, claims, validate_res, validate_ok>>
opaVars  == <<response, opa_result, requests>>
regVars  == <<capman, rwlock, events, host_started>>
dirVars  == <<caps_dir, seen, attempts>>
outVars  == <<stderr, log, exit>>

\* One record of the error stream: what was printed and the value it carries.
Diag(kind, detail) == [kind |-> kind, detail |-> detail]

\* The shape of the state.
TypeOK ==
    /\ pc \in {"open", "extract", "validate", "opa", "await", "start", "set_claims",
               "claims_unlock", "add_capabilities", "next_entry", "load_lock",
               "load_plugin", "load_unlock", "start_mux_lock", "start_mux",
               "start_mux_unlock", "park", "parked", "exited"}
    /\ opa_url \in {"None", "Some"}
    /\ token \in {"unread", "Some", "None", "Err"}
    /\ claims \in CapsLists
    /\ validate_res \in Validations \cup {NoValidation}
    /\ validate_ok \in {"unread", "Ok", "Err"}
    /\ response \in Responses \cup {NoResponse}
    /\ requests \in 0..1
    /\ capman.claims_set \in BOOLEAN
    /\ capman.claims \in CapsLists
    /\ capman.plugins \subseteq {"messaging", "kv"}
    /\ rwlock.writer \in BOOLEAN
    /\ rwlock.readers \in 0..(1 + Cardinality(HostThreads))
    /\ host \in [HostThreads -> {"idle", "read"}]
    /\ caps_dir \in {"unread", "missing", "file", "dir", "unreadable"}
    /\ Len(seen) <= MaxEntries
    /\ \A i \in DOMAIN seen : seen[i] \in DirItems
    /\ \A i \in DOMAIN attempts : attempts[i] \in DOMAIN seen
    /\ host_started \in BOOLEAN
    /\ \A i \in DOMAIN events : events[i] \in {"set_claims", "load_plugin", "start_mux"}
    /\ exit \in {"running", "Ok", "Err", "panic"}

Init ==
    /\ pc = "open"
    /\ opa_url \in {"None", "Some"}
    /\ token = "unread"
    /\ claims = NoCaps
    /\ validate_res = NoValidation
    /\ validate_ok = "unread"
    /\ response = NoResponse
    /\ opa_result = "pending"
    /\ requests = 0
    /\ capman = [claims_set |-> FALSE, claims |-> NoCaps, plugins |-> {}]
    /\ rwlock = [writer |-> FALSE, readers |-> 0]
    /\ caps_dir = "unread"
    /\ seen = <<>>
    /\ attempts = <<>>
    /\ host_started = FALSE
    /\ events = <<>>
    /\ stderr = <<>>
    /\ log = <<>>
    /\ exit = "running"
    /\ host = [h \in HostThreads |-> "idle"]

\* --------------------------------------------------------- process boundary

\* main returns Ok(()): the process ends with the success status.
ReturnOk(diags) ==
    /\ pc' = "exited"
    /\ exit' = "Ok"
    /\ stderr' = stderr \o diags

\* Mutant of ReturnErr: the error arm ends with Ok(()) like its siblings.
ReturnErr_AsOk(diags, e) ==
    /\ pc' = "exited"
    /\ exit' = "Ok"
    /\ stderr' = stderr \o diags \o <<Diag("Error", e)>>

\* main returns Err(e): the runtime prints "Error: {e:?}" on the error
\* stream and the process ends with a failure status.
ReturnErr(diags, e) ==
    /\ pc' = "exited"
    /\ exit' = "Err"
    /\ stderr' = stderr \o diags \o <<Diag("Error", e)>>

\* unwrap() on an Err / panic!(): the panic message goes to the error
\* stream and the process ends with a failure status.
Panic(msg) ==
    /\ pc' = "exited"
    /\ exit' = "panic"
    /\ stderr' = stderr \o <<Diag("panic", msg)>>

\* One info! record: the message and the value formatted into it.
Info(msg, detail) == [msg |-> msg, detail |-> detail]

\* ----------------------------------------------------------- policy client

Result(ok, value) == [ok |-> ok, value |-> value]

\* Mutant of post_json: the status test is inverted.
post_json_StatusInverted(r) ==
    IF r.send = "err" THEN Result(FALSE, "HttpClientFailure")
    ELSE IF r.text = "err" THEN Result(FALSE, "TextError")
    ELSE IF r.status # StatusOK THEN Result(TRUE, r.body)
    ELSE Result(FALSE, "WascapViolation: Open Policy Agent did not return 200 OK")

\* Mutant of post_json: the body is returned whatever the status.
post_json_StatusIgnored(r) ==
    IF r.send = "err" THEN Result(FALSE, "HttpClientFailure")
    ELSE IF r.text = "err" THEN Result(FALSE, "TextError")
    ELSE Result(TRUE, r.body)

\* post_json: the raw body on 200 OK, an error otherwise.  The body is read
\* (response.text()?) before the status is looked at.
post_json(r) ==
    IF r.send = "err" THEN Result(FALSE, "HttpClientFailure")
    ELSE IF r.text = "err" THEN Result(FALSE, "TextError")
    ELSE IF r.status = StatusOK THEN Result(TRUE, r.body)
    ELSE Result(FALSE, "WascapViolation: Open Policy Agent did not return 200 OK")

\* Mutant of from_str: a body that is no OpaReply decodes to allow true.
from_str_Lenient(raw) ==
    IF raw = "{allow:false}" THEN Result(TRUE, "false")
    ELSE Result(TRUE, "true")

\* serde_json::from_str::<OpaReply>: the allow field of a well-formed reply.
from_str(raw) ==
    IF raw = "{allow:true}" THEN Result(TRUE, "true")
    ELSE IF raw = "{allow:false}" THEN Result(TRUE, "false")
    ELSE Result(FALSE, "JsonError")

\* Mutant of opa_closure: the denial branch logs and falls through to Ok.
opa_closure_DenialIgnored(r) ==
    LET postresult == post_json(r) IN
    IF ~postresult.ok THEN [result |-> postresult.value, log |-> <<>>]
    ELSE LET oparesult == from_str(postresult.value) IN
         IF ~oparesult.ok THEN [result |-> oparesult.value, log |-> <<>>]
         ELSE IF oparesult.value = "true"
              THEN [result |-> "Ok", log |-> <<Info("OPA validation PASSED", NoValue)>>]
              ELSE [result |-> "Ok", log |-> <<Info("OPA validation DENIED", NoValue)>>]

\* The closure of check_token_with_opa applied to the service's answer:
\* its result and the info! record it writes.
opa_closure(r) ==
    LET postresult == post_json(r) IN
    IF ~postresult.ok THEN [result |-> postresult.value, log |-> <<>>]
    ELSE LET oparesult == from_str(postresult.value) IN
         IF ~oparesult.ok THEN [result |-> oparesult.value, log |-> <<>>]
         ELSE IF oparesult.value = "true"
              THEN [result |-> "Ok", log |-> <<Info("OPA validation PASSED", NoValue)>>]
              ELSE [result |-> "WascapViolation: OPA denied this module",
                    log |-> <<Info("OPA validation DENIED", NoValue)>>]

\* ----------------------------------------------------------------- main()

\* let buf = { File::open(inputfile).unwrap(); read_to_end(..).unwrap() }
ReadInput ==
    /\ pc = "open"
    /\ \E readable \in BOOLEAN :
         IF readable
         THEN /\ pc' = "extract"
              /\ UNCHANGED outVars
         ELSE /\ Panic("unwrap on Err: input file")
              /\ UNCHANGED log
    /\ UNCHANGED <<host, opa_url, mainVars, opaVars, regVars, dirVars>>

\* Mutant of ExtractClaims: the Ok(None) arm goes on to the policy check
\* instead of returning.
ExtractClaims_NoneProceeds ==
    /\ pc = "extract"
    /\ \E outcome \in {"Some", "None", "Err"} :
         /\ token' = outcome
         /\ CASE outcome = "Some" ->
                   /\ \E c \in CapsLists : claims' = c
                   /\ pc' = "validate"
                   /\ UNCHANGED <<stderr, exit>>
              [] outcome = "None" ->
                   /\ claims' = claims
                   /\ pc' = "opa"
                   /\ UNCHANGED <<stderr, exit>>
              [] outcome = "Err" ->
                   /\ claims' = claims
                   /\ ReturnErr(<<Diag("Error reading capabilities from file", "ExtractError")>>,
                                "ExtractError")
    /\ UNCHANGED <<host, opa_url, validate_res, validate_ok, opaVars, regVars, dirVars, log>>

\* let claims = wascap::wasm::extract_claims(&buf); match claims { .. }
\* The Ok(None) and Err arms end main here.
ExtractClaims ==
    /\ pc = "extract"
    /\ \E outcome \in {"Some", "None", "Err"} :
         /\ token' = outcome
         /\ CASE outcome = "Some" ->
                   /\ \E c \in CapsLists : claims' = c
                   /\ pc' = "validate"
                   /\ UNCHANGED <<stderr, exit>>
              [] outcome = "None" ->
                   /\ claims' = claims
                   /\ ReturnOk(<<Diag("No capability signature found", NoValue)>>)
              [] outcome = "Err" ->
                   /\ claims' = claims
                   /\ ReturnErr(<<Diag("Error reading capabilities from file", "ExtractError")>>,
                                "ExtractError")
    /\ UNCHANGED <<host, opa_url, validate_res, validate_ok, opaVars, regVars, dirVars, log>>

\* The if / else if of the Ok(Some(token)) arm.
TemporalStatus(v) ==
    IF v.cannot_use_yet THEN "NotYetUsable"
    ELSE IF v.expired THEN "Expired"
    ELSE "Usable"

\* Mutant of TemporalDiag: the first branch prints the other instant.
TemporalDiag_WrongField(v) ==
    IF v.cannot_use_yet
    THEN Diag("Token is currently unusable", v.expires_human)
    ELSE Diag("Token expired", v.expires_human)

\* What the two rejecting branches eprint!.
TemporalDiag(v) ==
    IF v.cannot_use_yet
    THEN Diag("Token is currently unusable", v.not_before_human)
    ELSE Diag("Token expired", v.expires_human)

\* Mutant of ValidateToken: the expired branch prints its message and falls
\* through to the policy check.
ValidateToken_ExpiredFallsThrough ==
    /\ pc = "validate"
    /\ \/ /\ validate_ok' = "Err"
          /\ validate_res' = validate_res
          /\ ReturnErr(<<>>, "ValidateError")
       \/ \E v \in Validations :
            /\ validate_ok' = "Ok"
            /\ validate_res' = v
            /\ CASE TemporalStatus(v) = "Usable" ->
                      /\ pc' = "opa"
                      /\ UNCHANGED <<stderr, exit>>
                 [] TemporalStatus(v) = "Expired" ->
                      /\ pc' = "opa"
                      /\ stderr' = Append(stderr, TemporalDiag(v))
                      /\ UNCHANGED exit
                 [] OTHER -> ReturnOk(<<TemporalDiag(v)>>)
    /\ UNCHANGED <<host, opa_url, token, claims, opaVars, regVars, dirVars, log>>

\* let validate_res = validate_token(&token.jwt)?; followed by the branch on
\* its flags.  Both rejecting branches print and return Ok(()).
ValidateToken ==
    /\ pc = "validate"
    /\ \/ /\ validate_ok' = "Err"
          /\ validate_res' = validate_res
          /\ ReturnErr(<<>>, "ValidateError")
       \/ \E v \in Validations :
            /\ validate_ok' = "Ok"
            /\ validate_res' = v
            /\ IF TemporalStatus(v) = "Usable"
               THEN /\ pc' = "opa"
                    /\ UNCHANGED <<stderr, exit>>
               ELSE ReturnOk(<<TemporalDiag(v)>>)
    /\ UNCHANGED <<host, opa_url, token, claims, opaVars, regVars, dirVars, log>>

\* Mutant of CheckTokenWithOpa: the claims are recorded in CAPMAN before
\* the policy service is asked.
CheckTokenWithOpa_PublishesFirst ==
    /\ pc = "opa"
    /\ capman' = [capman EXCEPT !.claims_set = TRUE, !.claims = claims]
    /\ IF opa_url = "None"
       THEN /\ opa_result' = "Ok"
            /\ pc' = "start"
            /\ UNCHANGED requests
       ELSE /\ requests' = requests + 1
            /\ pc' = "await"
            /\ UNCHANGED opa_result
    /\ UNCHANGED <<host, opa_url, mainVars, response, rwlock, events, host_started,
                   dirVars, outVars>>

\* check_token_with_opa(&args, token.jwt)?: with no URL the map_or default
\* Ok(()) is returned and no request is made; with a URL post_json sends
\* one POST and blocks for the answer.
CheckTokenWithOpa ==
    /\ pc = "opa"
    /\ IF opa_url = "None"
       THEN /\ opa_result' = "Ok"
            /\ pc' = "start"
            /\ UNCHANGED requests
       ELSE /\ requests' = requests + 1
            /\ pc' = "await"
            /\ UNCHANGED opa_result
    /\ UNCHANGED <<host, opa_url, mainVars, response, regVars, dirVars, outVars>>

\* Mutant of PolicyReply: a violation sends the request again instead of
\* being propagated.
PolicyReply_Retry ==
    /\ pc = "await"
    /\ \E r \in Responses :
         LET res == opa_closure(r) IN
         /\ response' = r
         /\ opa_result' = res.result
         /\ log' = log \o res.log
         /\ pc' = IF res.result = "Ok" THEN "start" ELSE "opa"
         /\ UNCHANGED <<stderr, exit>>
    /\ UNCHANGED <<host, opa_url, mainVars, requests, regVars, dirVars>>

\* The answer to the POST arrives; the closure classifies it and main
\* propagates an error with ?.
PolicyReply ==
    /\ pc = "await"
    /\ \E r \in Responses :
         LET res == opa_closure(r) IN
         /\ response' = r
         /\ opa_result' = res.result
         /\ log' = log \o res.log
         /\ IF res.result = "Ok"
            THEN /\ pc' = "start"
                 /\ UNCHANGED <<stderr, exit>>
            ELSE ReturnErr(<<>>, res.result)
    /\ UNCHANGED <<host, opa_url, mainVars, requests, regVars, dirVars>>

\* ------------------------------------------------------------------ CAPMAN

\* CAPMAN.write(): exclusive access, granted when nobody holds the lock.
CanWrite(l) == ~l.writer /\ l.readers = 0

\* CAPMAN.read(): shared access, granted when no writer holds the lock.
CanRead(l) == ~l.writer

\* capman.set_claims(claims): records the manifest.
set_claims(reg, c) == [reg EXCEPT !.claims_set = TRUE, !.claims = c]

\* capman.load_plugin(path): Ok(capid) with the provider registered under
\* its id, or Err with the registry left as it was.
load_plugin(reg, item) ==
    IF item.load = "ok"
    THEN [result |-> Result(TRUE, item.capid),
          reg |-> [reg EXCEPT !.plugins = @ \cup {item.capid}]]
    ELSE [result |-> Result(FALSE, "LoadError"), reg |-> reg]

\* ---------------------------------------------------------------- start()

\* Mutant of StartWriteLock: set_claims is reached without the write guard.
StartWriteLock_NoGuard ==
    /\ pc = "start"
    /\ pc' = "set_claims"
    /\ UNCHANGED <<host, opa_url, mainVars, opaVars, regVars, dirVars, outVars>>

\* { let mut capman = CAPMAN.write().unwrap(); ..
StartWriteLock ==
    /\ pc = "start"
    /\ CanWrite(rwlock)
    /\ rwlock' = [rwlock EXCEPT !.writer = TRUE]
    /\ pc' = "set_claims"
    /\ UNCHANGED <<host, opa_url, mainVars, opaVars, capman, events, host_started,
                   dirVars, outVars>>

\* Mutant of SetClaims: the set_claims call is left out of the block.
SetClaims_Omitted ==
    /\ pc = "set_claims"
    /\ pc' = "claims_unlock"
    /\ UNCHANGED <<host, opa_url, mainVars, opaVars, regVars, dirVars, outVars>>

\* .. capman.set_claims(claims.clone()); ..
SetClaims ==
    /\ pc = "set_claims"
    /\ capman' = set_claims(capman, claims)
    /\ events' = Append(events, "set_claims")
    /\ pc' = "claims_unlock"
    /\ UNCHANGED <<host, opa_url, mainVars, opaVars, rwlock, host_started, dirVars, outVars>>

\* Mutant of ClaimsUnlock: the guard is bound outside the block and lives
\* on into add_capabilities.
ClaimsUnlock_GuardKept ==
    /\ pc = "claims_unlock"
    /\ pc' = "add_capabilities"
    /\ UNCHANGED <<host, opa_url, mainVars, opaVars, regVars, dirVars, outVars>>

\* .. } the write guard is dropped at the end of the block.
ClaimsUnlock ==
    /\ pc = "claims_unlock"
    /\ rwlock' = [rwlock EXCEPT !.writer = FALSE]
    /\ pc' = "add_capabilities"
    /\ UNCHANGED <<host, opa_url, mainVars, opaVars, capman, events, host_started,
                   dirVars, outVars>>

\* ------------------------------------------------------- add_capabilities()

\* Some("dylib") | Some("so")
LibraryExtensions == {"dylib", "so"}

\* Mutant of AddCapabilities: a path that is no directory is passed over
\* in silence.
AddCapabilities_Lenient ==
    /\ pc = "add_capabilities"
    /\ \E found \in {"missing", "file", "dir", "unreadable"} :
         /\ caps_dir' = found
         /\ CASE found = "dir" ->
                   /\ pc' = "next_entry"
                   /\ UNCHANGED <<stderr, exit>>
              [] found = "unreadable" ->
                   Panic("unwrap on Err: read_dir")
              [] OTHER ->
                   /\ pc' = "start_mux_lock"
                   /\ UNCHANGED <<stderr, exit>>
    /\ UNCHANGED <<host, opa_url, mainVars, opaVars, regVars, seen, attempts, log>>

\* if caps_dir.is_dir() { for entry in read_dir(caps_dir).unwrap() .. }
\* else { panic!(..) }
AddCapabilities ==
    /\ pc = "add_capabilities"
    /\ \E found \in {"missing", "file", "dir", "unreadable"} :
         /\ caps_dir' = found
         /\ CASE found = "dir" ->
                   /\ pc' = "next_entry"
                   /\ UNCHANGED <<stderr, exit>>
              [] found = "unreadable" ->
                   Panic("unwrap on Err: read_dir")
              [] OTHER ->
                   Panic("Capability plugin location is not a directory.")
    /\ UNCHANGED <<host, opa_url, mainVars, opaVars, regVars, seen, attempts, log>>

\* Mutant of EntryAction: a library file is loaded only if the claims
\* declare the capability it provides.
EntryAction_DeclaredOnly(item) ==
    IF item.kind = "ioerr" THEN "panic"
    ELSE IF item.kind = "dir" THEN "skip"
    ELSE IF item.ext = "none" THEN "skip"
    ELSE IF item.ext = "nonutf8" THEN "panic"
    ELSE IF item.ext \in {"dylib", "so"}
              /\ \E k \in DOMAIN claims.list : claims.list[k] = item.capid
         THEN "load"
    ELSE "skip"

\* Mutant of EntryAction: the extension is not looked at, every file is
\* handed to load_plugin.
EntryAction_NoExtensionTest(item) ==
    IF item.kind = "ioerr" THEN "panic"
    ELSE IF item.kind = "dir" THEN "skip"
    ELSE "load"

\* What the loop body does with one item of the iterator: "panic" for an
\* Err item (entry.unwrap()) or an extension that is not UTF-8
\* (to_str().unwrap()), "load" for a library file, "skip" for the rest.
EntryAction(item) ==
    IF item.kind = "ioerr" THEN "panic"
    ELSE IF item.kind = "dir" THEN "skip"
    ELSE IF item.ext = "none" THEN "skip"
    ELSE IF item.ext = "nonutf8" THEN "panic"
    ELSE IF item.ext \in LibraryExtensions THEN "load"
    ELSE "skip"

\* One step of the for loop: the iterator ends, or yields the next item.
NextEntry ==
    /\ pc = "next_entry"
    /\ \/ /\ pc' = "start_mux_lock"
          /\ UNCHANGED <<seen, stderr, exit>>
       \/ /\ Len(seen) < MaxEntries
          /\ \E item \in DirItems :
               /\ seen' = Append(seen, item)
               /\ CASE EntryAction(item) = "panic" ->
                         Panic("unwrap on Err: directory entry")
                    [] EntryAction(item) = "load" ->
                         /\ pc' = "load_lock"
                         /\ UNCHANGED <<stderr, exit>>
                    [] OTHER ->
                         /\ pc' = "next_entry"
                         /\ UNCHANGED <<stderr, exit>>
    /\ UNCHANGED <<host, opa_url, mainVars, opaVars, regVars, caps_dir, attempts, log>>

\* unsafe { let mut capman = CAPMAN.write().unwrap(); ..
LoadWriteLock ==
    /\ pc = "load_lock"
    /\ CanWrite(rwlock)
    /\ rwlock' = [rwlock EXCEPT !.writer = TRUE]
    /\ pc' = "load_plugin"
    /\ UNCHANGED <<host, opa_url, mainVars, opaVars, capman, events, host_started,
                   dirVars, outVars>>

\* Mutant of LoadPlugin: the claims are recorded again with every load.
LoadPlugin_Republishes ==
    /\ pc = "load_plugin"
    /\ capman' = set_claims(load_plugin(capman, seen[Len(seen)]).reg, NoCaps)
    /\ attempts' = Append(attempts, Len(seen))
    /\ events' = events \o <<"load_plugin", "set_claims">>
    /\ pc' = "load_unlock"
    /\ UNCHANGED <<host, opa_url, mainVars, opaVars, rwlock, host_started, caps_dir,
                   seen, outVars>>

\* .. capman.load_plugin(path) } for the item just yielded.
LoadPlugin ==
    /\ pc = "load_plugin"
    /\ capman' = load_plugin(capman, seen[Len(seen)]).reg
    /\ attempts' = Append(attempts, Len(seen))
    /\ events' = Append(events, "load_plugin")
    /\ pc' = "load_unlock"
    /\ UNCHANGED <<host, opa_url, mainVars, opaVars, rwlock, host_started, caps_dir,
                   seen, outVars>>

\* The info! record of match result { Ok(capid) => .., Err(e) => .. }.
LoadLog(result) ==
    IF result.ok
    THEN Info("Capability provider loaded", result.value)
    ELSE Info("Capability provider not loaded", result.value)

\* Mutant of LoadUnlock: the result is unwrapped, a failed load panics.
LoadUnlock_FailureFatal ==
    /\ pc = "load_unlock"
    /\ rwlock' = [rwlock EXCEPT !.writer = FALSE]
    /\ LET result == load_plugin(capman, seen[Len(seen)]).result IN
         IF result.ok
         THEN /\ log' = Append(log, LoadLog(result))
              /\ pc' = "next_entry"
              /\ UNCHANGED <<stderr, exit>>
         ELSE /\ Panic("unwrap on Err: load_plugin")
              /\ UNCHANGED log
    /\ UNCHANGED <<host, opa_url, mainVars, opaVars, capman, events, host_started, dirVars>>

\* The guard is dropped at the end of the block that computes result; the
\* match then logs the outcome and the loop goes on either way.
LoadUnlock ==
    /\ pc = "load_unlock"
    /\ rwlock' = [rwlock EXCEPT !.writer = FALSE]
    /\ log' = Append(log, LoadLog(load_plugin(capman, seen[Len(seen)]).result))
    /\ pc' = "next_entry"
    /\ UNCHANGED <<host, opa_url, mainVars, opaVars, capman, events, host_started,
                   dirVars, stderr, exit>>

\* ------------------------------------------------------ start(), continued

\* claims.caps.map_or("none".to_string(), |c| c.join(", "))
JoinCaps(c) ==
    IF ~c.some THEN "none"
    ELSE IF c.list = <<>> THEN ""
    ELSE IF Len(c.list) = 1 THEN c.list[1]
    ELSE "messaging, kv"

\* Mutant of StartReadLock: a declared capability without a loaded provider
\* stops the bootstrap.
StartReadLock_RequiresDeclared ==
    /\ pc = "start_mux_lock"
    /\ CanRead(rwlock)
    /\ IF \A k \in DOMAIN claims.list : claims.list[k] \in capman.plugins
       THEN /\ rwlock' = [rwlock EXCEPT !.readers = @ + 1]
            /\ log' = Append(log, Info("Starting Waxosuit", JoinCaps(claims)))
            /\ pc' = "start_mux"
            /\ UNCHANGED <<stderr, exit>>
       ELSE /\ Panic("declared capability has no provider")
            /\ UNCHANGED <<rwlock, log>>
    /\ UNCHANGED <<host, opa_url, mainVars, opaVars, capman, events, host_started, dirVars>>

\* info!("Starting Waxosuit ..") then { let lock = CAPMAN.read().unwrap(); ..
StartReadLock ==
    /\ pc = "start_mux_lock"
    /\ CanRead(rwlock)
    /\ rwlock' = [rwlock EXCEPT !.readers = @ + 1]
    /\ log' = Append(log, Info("Starting Waxosuit", JoinCaps(claims)))
    /\ pc' = "start_mux"
    /\ UNCHANGED <<host, opa_url, mainVars, opaVars, capman, events, host_started,
                   dirVars, stderr, exit>>

\* .. lock.start_mux(..)?; an Err leaves start through ?, which drops the
\* read guard, and main's unwrap() panics on it.
StartMux ==
    /\ pc = "start_mux"
    /\ events' = Append(events, "start_mux")
    /\ \E ok \in BOOLEAN :
         IF ok
         THEN /\ host_started' = TRUE
              /\ pc' = "start_mux_unlock"
              /\ UNCHANGED <<rwlock, stderr, exit>>
         ELSE /\ rwlock' = [rwlock EXCEPT !.readers = @ - 1]
              /\ Panic("unwrap on Err: start")
              /\ UNCHANGED host_started
    /\ UNCHANGED <<host, opa_url, mainVars, opaVars, capman, dirVars, log>>

\* .. } the read guard is dropped at the end of the block.
StartMuxUnlock ==
    /\ pc = "start_mux_unlock"
    /\ rwlock' = [rwlock EXCEPT !.readers = @ - 1]
    /\ pc' = "park"
    /\ UNCHANGED <<host, opa_url, mainVars, opaVars, capman, events, host_started,
                   dirVars, outVars>>

\* Mutant of Park: the thread does not block, start returns Ok(()) and main
\* returns.
Park_Returns ==
    /\ pc = "park"
    /\ ReturnOk(<<>>)
    /\ UNCHANGED <<host, opa_url, mainVars, opaVars, regVars, dirVars, log>>

\* std::thread::park();
Park ==
    /\ pc = "park"
    /\ pc' = "parked"
    /\ UNCHANGED <<host, opa_url, mainVars, opaVars, regVars, dirVars, outVars>>

\* ------------------------------------------------------------ running host

\* A thread of the started host takes shared access to CAPMAN for a
\* capability lookup.
HostRead(h) ==
    /\ host_started
    /\ exit = "running"
    /\ host[h] = "idle"
    /\ CanRead(rwlock)
    /\ rwlock' = [rwlock EXCEPT !.readers = @ + 1]
    /\ host' = [host EXCEPT ![h] = "read"]
    /\ UNCHANGED bootVars

\* The lookup is over, the read guard is dropped.
HostRelease(h) ==
    /\ host[h] = "read"
    /\ rwlock' = [rwlock EXCEPT !.readers = @ - 1]
    /\ host' = [host EXCEPT ![h] = "idle"]
    /\ UNCHANGED bootVars

\* ------------------------------------------------------------ specification

Next ==
    \/ ReadInput
    \/ ExtractClaims
    \/ ValidateToken
    \/ CheckTokenWithOpa
    \/ PolicyReply
    \/ StartWriteLock
    \/ SetClaims
    \/ ClaimsUnlock
    \/ AddCapabilities
    \/ NextEntry
    \/ LoadWriteLock
    \/ LoadPlugin
    \/ LoadUnlock
    \/ StartReadLock
    \/ StartMux
    \/ StartMuxUnlock
    \/ Park
    \/ \E h \in HostThreads : HostRead(h)
    \/ \E h \in HostThreads : HostRelease(h)

Spec == Init /\ [][Next]_vars

\* ------------------------------------------------- vocabulary of the claims

\* The calls of one kind among the registry calls made so far.
Calls(name) == {i \in DOMAIN events : events[i] = name}

\* The bootstrap thread is inside start(), after the claims block.
InScan == pc \in {"add_capabilities", "next_entry", "load_lock", "load_plugin", "load_unlock"}

\* The for loop of add_capabilities ran to the end of the iterator.
ScanDone ==
    \/ pc \in {"start_mux_lock", "start_mux", "start_mux_unlock", "park", "parked"}
    \/ Calls("start_mux") # {}

\* Indices of the items seen that are library files, and of those whose
\* load fails.
LibraryFiles == {i \in DOMAIN seen : EntryAction(seen[i]) = "load"}
FailingFiles == {i \in LibraryFiles : seen[i].load = "err"}

\* The info! records with a given message.
Logged(msg) == {i \in DOMAIN log : log[i].msg = msg}

\* The info! records written by the directory scan.
ScanLog ==
    {i \in DOMAIN log :
        log[i].msg \notin {"OPA validation PASSED", "OPA validation DENIED",
                           "Starting Waxosuit"}}

\* An HTTP status of the success class.
Is2xx(status) == status >= 200 /\ status < 300

\* The policy service answered the POST with a readable body.
Answered == opa_url = "Some" /\ response.send = "ok" /\ response.text = "ok"

\* ------------------------------------------------------------------ claims

\* C1: the manifest is recorded in the registry (set_claims) before the
\* first load_plugin call, every load_plugin call of the scan has completed
\* when start_mux is invoked, and no load_plugin or start_mux step is taken
\* or made while the registry's manifest is unset.
C1_PublishBeforeLoadBeforeStart ==
    /\ events # <<>> => events[1] = "set_claims"
    /\ \A i \in Calls("start_mux") : \A j \in Calls("load_plugin") : j < i
    /\ \A i \in Calls("load_plugin") \cup Calls("start_mux") :
           \E j \in Calls("set_claims") : j < i
    /\ (Calls("load_plugin") \cup Calls("start_mux") # {}) => capman.claims_set
    /\ pc \in {"load_plugin", "start_mux"} => capman.claims_set
    /\ pc = "start_mux" => ~rwlock.writer /\ Len(attempts) = Cardinality(Calls("load_plugin"))

\* C1 witness: two providers were loaded after the publication and the mux
\* was then started.
C1_Witness ==
    /\ events = <<"set_claims", "load_plugin", "load_plugin", "start_mux">>
    /\ host_started

\* C2: an artifact without a valid signed manifest (extract_claims gives no
\* token or an error, or validate_token gives an error) never starts the
\* host: start_mux is not invoked and the process ends.
C2_NoManifestNoHost ==
    (token \in {"None", "Err"} \/ validate_ok = "Err") =>
        /\ pc = "exited"
        /\ ~host_started
        /\ Calls("start_mux") = {}
        /\ events = <<>>

\* C2 witness: validate_token rejected the token and main returned.
C2_Witness == token = "Some" /\ validate_ok = "Err" /\ pc = "exited"

\* C3: with a policy URL, a reply with allow false never starts the host and
\* a reply with allow true (the 200 OK reply the closure decodes) takes the
\* bootstrap to the publication; with no URL the bootstrap goes on to the
\* publication and no request is ever sent.
C3_PolicyGate ==
    /\ (opa_url = "Some" /\ response.body = "{allow:false}") =>
           /\ pc = "exited"
           /\ ~host_started
           /\ Calls("start_mux") = {}
    /\ (Answered /\ response.status = StatusOK /\ response.body = "{allow:true}") =>
           /\ opa_result = "Ok"
           /\ pc \in {"start", "set_claims"} \/ capman.claims_set
    /\ opa_url = "None" =>
           /\ requests = 0
           /\ response = NoResponse
           /\ (validate_ok = "Ok" /\ TemporalStatus(validate_res) = "Usable"
                  /\ pc # "opa") =>
                 /\ opa_result = "Ok"
                 /\ pc \in {"start", "set_claims"} \/ capman.claims_set

\* C3 witness: the service allowed the module and the claims were
\* published.
C3_Witness ==
    /\ Answered /\ response.status = StatusOK /\ response.body = "{allow:true}"
    /\ capman.claims_set
    /\ requests = 1

\* C4: a validated manifest that cannot be used yet or is expired ends the
\* bootstrap with no policy request and no host start, and exactly one
\* rejection is printed whose instant is the field that belongs to it:
\* not_before_human for "currently unusable", expires_human for "expired";
\* with both flags set the single rejection is the one of the first branch.
C4_TemporalRejection ==
    (validate_ok = "Ok" /\ (validate_res.cannot_use_yet \/ validate_res.expired)) =>
        /\ pc = "exited"
        /\ requests = 0
        /\ opa_result = "pending"
        /\ ~host_started
        /\ events = <<>>
        /\ Len(stderr) = 1
        /\ \/ /\ stderr[1].kind = "Token is currently unusable"
              /\ validate_res.cannot_use_yet
              /\ stderr[1].detail = validate_res.not_before_human
           \/ /\ stderr[1].kind = "Token expired"
              /\ validate_res.expired
              /\ stderr[1].detail = validate_res.expires_human
        /\ (validate_res.cannot_use_yet /\ ~validate_res.expired) =>
               stderr[1].kind = "Token is currently unusable"
        /\ (validate_res.expired /\ ~validate_res.cannot_use_yet) =>
               stderr[1].kind = "Token expired"

\* C4 witness: the verifier set both flags, with different instants, and
\* main printed one rejection and returned.
C4_Witness ==
    /\ validate_ok = "Ok"
    /\ validate_res.cannot_use_yet /\ validate_res.expired
    /\ validate_res.not_before_human # validate_res.expires_human
    /\ pc = "exited"
    /\ Len(stderr) = 1

\* C5 as stated: every failure path (extraction error, missing manifest,
\* not-yet-usable or expired manifest, policy violation, provider-directory
\* error) prints a diagnostic and returns an error result to the process
\* boundary; only the success path does not.
C5_Original_EveryFailureReturnsError ==
    /\ pc # "exited" => exit = "running" /\ stderr = <<>>
    /\ (pc = "exited" /\ ~host_started) =>
           /\ Len(stderr) >= 1
           /\ exit \in {"Err", "panic"}

\* C5 amended: every failure path prints a diagnostic; an extraction error,
\* a validation error and a policy violation return Err, a provider
\* directory that is no directory panics, but a missing manifest and a
\* not-yet-usable or expired manifest return the success result Ok(()); the
\* success path prints nothing and does not return.
C5_FailureResults ==
    /\ pc # "exited" => exit = "running" /\ stderr = <<>>
    /\ (pc = "exited" /\ ~host_started) =>
           /\ Len(stderr) >= 1
           /\ exit = "Ok" <=>
                  \/ token = "None"
                  \/ validate_ok = "Ok" /\ TemporalStatus(validate_res) # "Usable"
           /\ exit \in {"Ok", "Err", "panic"}
           /\ token = "Err" => exit = "Err"
           /\ validate_ok = "Err" => exit = "Err"
           /\ opa_result \notin {"pending", "Ok"} => exit = "Err"
           /\ caps_dir \in {"missing", "file"} => exit = "panic"
           /\ exit = "Err" =>
                  token = "Err" \/ validate_ok = "Err" \/ opa_result \notin {"pending", "Ok"}

\* C5 witness: an artifact with no manifest was refused with one diagnostic
\* and the success result.
C5_Witness ==
    /\ token = "None"
    /\ pc = "exited"
    /\ exit = "Ok"
    /\ Len(stderr) = 1

C7_BadCapsDirIsFatal ==
    caps_dir \in {"missing", "file"} =>
        /\ pc = "exited"
        /\ exit = "panic"
        /\ seen = <<>>
        /\ attempts = <<>>
        /\ Calls("load_plugin") = {}
        /\ Calls("start_mux") = {}
        /\ ~host_started

\* C7 witness: the path named a file; the claims were already published
\* when the process panicked.
C7_Witness ==
    /\ caps_dir = "file"
    /\ pc = "exited"
    /\ capman.claims_set

\* A finished scan over exactly one valid provider file and one file that
\* is no library.
OneProviderOneOther ==
    /\ ScanDone
    /\ Len(seen) = 2
    /\ \E i, j \in DOMAIN seen :
         /\ i # j
         /\ seen[i].kind = "file" /\ seen[i].ext \in LibraryExtensions /\ seen[i].load = "ok"
         /\ seen[j].kind = "file" /\ seen[j].ext \notin LibraryExtensions

\* The records of the scan that are not the outcome of a load.
SkipRecords ==
    {i \in ScanLog :
        log[i].msg \notin {"Capability provider loaded", "Capability provider not loaded"}}

\* C8 as stated: such a scan loads exactly one provider and logs exactly one
\* skip/ignore event for the other file.
C8_Original_SkipIsLogged ==
    OneProviderOneOther =>
        /\ Cardinality(capman.plugins) = 1
        /\ Cardinality(SkipRecords) = 1

\* C8 amended: such a scan loads exactly one provider, makes no load attempt
\* for the other file and writes no log record for it: the only record of
\* the scan is the one of the loaded provider.  (The scan finishes only if
\* the other file's extension is absent or valid UTF-8: one that is not
\* panics the scan at that file.)
C8_SkipIsSilent ==
    /\ OneProviderOneOther =>
           /\ Cardinality(capman.plugins) = 1
           /\ Len(attempts) = 1
           /\ seen[attempts[1]].ext \in LibraryExtensions
           /\ Cardinality(Logged("Capability provider loaded")) = 1
           /\ SkipRecords = {}
           /\ Cardinality(ScanLog) = 1
           /\ \A i \in DOMAIN seen : seen[i].ext # "nonutf8"
    /\ (seen # <<>> /\ seen[Len(seen)].kind = "file" /\ seen[Len(seen)].ext = "nonutf8") =>
           /\ pc = "exited"
           /\ exit = "panic"
           /\ Calls("start_mux") = {}

\* C8 witness: a text file was passed over, the provider after it was
\* loaded, and the host runs.
C8_Witness ==
    /\ OneProviderOneOther
    /\ seen[1].ext = "txt"
    /\ attempts = <<2>>
    /\ pc = "parked"

\* C9 as stated: with an endpoint configured the policy check succeeds for
\* every response with a 2xx status and a decoded verdict of true.
C9_Original_Any2xxAllowed ==
    (Answered /\ Is2xx(response.status) /\ response.body = "{allow:true}") =>
        opa_result = "Ok"

\* C9 amended: with an endpoint configured the policy check succeeds for
\* every response with status 200 OK and a decoded verdict of true, and for
\* no other response: another 2xx status is a violation.
C9_Only200Allowed ==
    /\ (Answered /\ response.status = StatusOK /\ response.body = "{allow:true}") =>
           /\ opa_result = "Ok"
           /\ Logged("OPA validation PASSED") # {}
    /\ (opa_url = "Some" /\ opa_result = "Ok") =>
           /\ Answered
           /\ response.status = StatusOK
           /\ response.body = "{allow:true}"
    /\ (Answered /\ Is2xx(response.status) /\ response.status # StatusOK) =>
           /\ opa_result = "WascapViolation: Open Policy Agent did not return 200 OK"
           /\ pc = "exited"

\* C9 witness: a 200 OK reply with allow true passed the check.
C9_Witness ==
    /\ Answered
    /\ response.status = StatusOK
    /\ response.body = "{allow:true}"
    /\ opa_result = "Ok"
    /\ pc = "start"

\* C10: with an endpoint configured a response with a status outside 2xx is
\* a denial whatever its body: the policy check returns an error and the
\* host is never started.
C10_Non2xxDenied ==
    (opa_url = "Some" /\ response.send = "ok" /\ ~Is2xx(response.status)) =>
        /\ opa_result \notin {"pending", "Ok"}
        /\ pc = "exited"
        /\ exit = "Err"
        /\ events = <<>>
        /\ ~host_started

\* C10 witness: a 500 reply carrying allow true was refused.
C10_Witness ==
    /\ opa_url = "Some"
    /\ response.send = "ok"
    /\ response.status = 500
    /\ response.body = "{allow:true}"
    /\ pc = "exited"

\* The policy check ended with a violation: transport failure, unreadable
\* body, non-success status, undecodable reply or denial.
PolicyViolation == opa_result \notin {"pending", "Ok"}

\* C11: at most one POST is sent per run and none is repeated: after a
\* policy violation no further request is sent and the run has ended
\* without publishing the manifest, loading a provider or starting the host.
C11_OnePostNoRetry ==
    /\ [](requests <= 1)
    /\ [](requests = 1 => opa_url = "Some")
    /\ [](PolicyViolation =>
            /\ requests = 1
            /\ pc = "exited"
            /\ exit = "Err"
            /\ ~capman.claims_set
            /\ events = <<>>
            /\ attempts = <<>>
            /\ ~host_started)
    /\ [][PolicyViolation => requests' = requests /\ pc' = "exited"]_vars

\* C11 witness: the service denied the module; one request was sent and
\* the run is over.
C11_Witness ==
    /\ opa_result = "WascapViolation: OPA denied this module"
    /\ requests = 1
    /\ pc = "exited"

\* C12: HostStarted is terminal: once start_mux has returned Ok the thread
\* makes no further registry call and changes nothing in the registry, the
\* process does not exit, and once parked the thread does nothing at all;
\* the thread reaches park only if start_mux returned Ok.
C12_HostStartedTerminal ==
    /\ [](pc \in {"park", "parked"} => host_started)
    /\ [](host_started => exit = "running" /\ pc \in {"start_mux_unlock", "park", "parked"})
    /\ [][host_started =>
            /\ events' = events
            /\ capman' = capman
            /\ exit' = "running"
            /\ pc' # "exited"]_vars
    /\ [][pc = "parked" => UNCHANGED bootVars]_vars

\* C12 witness: the host was started and the thread is parked.
C12_Witness == pc = "parked" /\ host_started /\ exit = "running"

\* C13: the manifest field of the registry is written at most once in a
\* run, the write comes before start_mux is invoked, and once set the field
\* is never cleared or replaced.
C13_ManifestSetOnce ==
    /\ [](Cardinality(Calls("set_claims")) <= 1)
    /\ [](capman.claims_set <=> Calls("set_claims") # {})
    /\ [](capman.claims_set => capman.claims = claims)
    /\ [](\A i \in Calls("start_mux") : \E j \in Calls("set_claims") : j < i)
    /\ [](pc = "start_mux" => capman.claims_set)
    /\ [][capman.claims_set =>
            /\ capman'.claims_set
            /\ capman'.claims = capman.claims]_vars

\* C13 witness: the claims with two declared capabilities were recorded by
\* the one set_claims call and are still there with the host running.
C13_Witness ==
    /\ capman.claims_set
    /\ capman.claims = [some |-> TRUE, list |-> <<"messaging", "kv">>]
    /\ Cardinality(Calls("set_claims")) = 1
    /\ Cardinality(Calls("load_plugin")) = 2
    /\ host_started

\* The ids reported by the library files whose load succeeded.
LoadedIds == {seen[i].capid : i \in LibraryFiles \ FailingFiles}

\* The scan met no item that panics it.
CleanScan == \A i \in DOMAIN seen : EntryAction(seen[i]) # "panic"

Stage(p) ==
    CASE p = "open" -> 0
      [] p = "extract" -> 1
      [] p = "validate" -> 2
      [] p = "opa" -> 3
      [] p = "await" -> 4
      [] p = "start" -> 5
      [] p = "set_claims" -> 6
      [] p = "claims_unlock" -> 7
      [] p = "add_capabilities" -> 8
      [] p \in {"next_entry", "load_lock", "load_plugin", "load_unlock"} -> 9
      [] p = "start_mux_lock" -> 10
      [] p = "start_mux" -> 11
      [] p = "start_mux_unlock" -> 12
      [] p = "park" -> 13
      [] p = "parked" -> 14
      [] p = "exited" -> 15

\* The stage of the directory scan, the only one with a loop.
ScanStage == Stage("next_entry")

\* The manifest was extracted, validated and found usable.
UsableManifest ==
    /\ token = "Some"
    /\ validate_ok = "Ok"
    /\ TemporalStatus(validate_res) = "Usable"

\* C15: the stages are visited in forward order and each at most once: a
\* step never goes back to an earlier stage nor enters a stage again, the
\* policy request is sent only for a manifest that was extracted, validated
\* and found usable, the manifest is published only after the policy gate
\* returned success or was bypassed for want of a URL, and nothing happens
\* after the run aborted or the thread parked with the host started.
C15_ForwardOnly ==
    /\ [][Stage(pc') > Stage(pc) \/ (Stage(pc') = ScanStage /\ Stage(pc) = ScanStage)]_bootVars
    /\ [](requests >= 1 => UsableManifest)
    /\ []((capman.claims_set \/ Stage(pc) \in 5..14) =>
            /\ UsableManifest
            /\ opa_result = "Ok"
            /\ opa_url = "None" => requests = 0 /\ response = NoResponse
            /\ opa_url = "Some" =>
                   /\ requests = 1
                   /\ response.status = StatusOK
                   /\ response.body = "{allow:true}")
    /\ [][(pc = "exited" \/ pc = "parked") => UNCHANGED bootVars]_vars

\* C15 witness: a run that went through the policy request and every later
\* stage up to the parked thread.
C15_Witness ==
    /\ pc = "parked"
    /\ requests = 1
    /\ opa_result = "Ok"
    /\ events = <<"set_claims", "load_plugin", "start_mux">>
    /\ host_started

\* CAPMAN as it is before the bootstrap touches it.
EmptyRegistry == [claims_set |-> FALSE, claims |-> NoCaps, plugins |-> {}]

\* The run was aborted by the manifest checks or the policy gate.
GateAbort ==
    \/ token \in {"Err", "None"}
    \/ validate_ok = "Ok" /\ TemporalStatus(validate_res) # "Usable"
    \/ PolicyViolation

\* C16: a run that aborts because of an extraction error, a missing
\* manifest, a temporal rejection or a policy violation leaves the registry
\* as it was at the start: no manifest recorded, no provider load attempted,
\* the lock never taken.
C16_AbortLeavesRegistry ==
    GateAbort =>
        /\ pc = "exited"
        /\ capman = EmptyRegistry
        /\ events = <<>>
        /\ attempts = <<>>
        /\ seen = <<>>
        /\ rwlock = [writer |-> FALSE, readers |-> 0]
        /\ ~host_started

\* C16 witness: an expired manifest was refused with its expiry instant on
\* the error stream and the registry untouched.
C16_Witness ==
    /\ validate_ok = "Ok"
    /\ validate_res.expired /\ ~validate_res.cannot_use_yet
    /\ pc = "exited"
    /\ stderr = <<Diag("Token expired", validate_res.expires_human)>>
    /\ capman = EmptyRegistry

\* Read guards held by the host's threads, and the guards the bootstrap
\* thread holds itself (the host's threads never take the write lock).
HostReaders == Cardinality({h \in HostThreads : host[h] = "read"})
BootReaders == rwlock.readers - HostReaders
BootGuards == (IF rwlock.writer THEN 1 ELSE 0) + BootReaders

\* C17: set_claims and every load_plugin run, and the registry changes, only
\* while the write lock is held; start_mux runs while the bootstrap thread
\* holds the read lock and nobody the write lock; in no state does a writer
\* hold the lock together with any reader.
C17_MutationsUnderWriteLock ==
    /\ [](~(rwlock.writer /\ rwlock.readers > 0))
    /\ [](pc \in {"set_claims", "load_plugin"} => rwlock.writer)
    /\ [](pc = "start_mux" => BootReaders = 1 /\ ~rwlock.writer)
    /\ [][capman' # capman => rwlock.writer /\ rwlock'.writer]_vars
    /\ [][events' # events =>
            IF events'[Len(events')] = "start_mux"
            THEN BootReaders = 1 /\ ~rwlock.writer
            ELSE rwlock.writer /\ rwlock'.writer]_vars

\* C17 witness: a provider was registered by a load_plugin call made under
\* the write guard, which is still held.
C17_Witness ==
    /\ pc = "load_unlock"
    /\ rwlock = [writer |-> TRUE, readers |-> 0]
    /\ capman.plugins # {}

\* C18: the bootstrap thread holds at most one guard of the registry lock
\* at a time and has dropped it before it asks for the next, so it never
\* waits for a lock it holds itself; parked after HostStarted it holds
\* none, so a host thread asking for shared access gets it, and exclusive
\* access is free whenever no host thread is reading.
C18_OneGuardAtATime ==
    /\ [](BootGuards \in {0, 1})
    /\ [](pc \in {"start", "load_lock", "start_mux_lock"} => BootGuards = 0)
    /\ [](pc \in {"start", "load_lock"} => CanWrite(rwlock))
    /\ [](pc = "start_mux_lock" => CanRead(rwlock))
    /\ [](pc \in {"park", "parked", "exited"} => BootGuards = 0)
    /\ [](pc = "parked" => CanRead(rwlock) /\ (HostReaders = 0 => CanWrite(rwlock)))
    /\ [][BootGuards' > BootGuards => BootGuards = 0]_vars

\* C18 witness: with the bootstrap thread parked a host thread holds the
\* only read guard.
C18_Witness ==
    /\ pc = "parked"
    /\ host_started
    /\ HostReaders = 1
    /\ rwlock = [writer |-> FALSE, readers |-> 1]

\* The items seen that are files, not directories, with the extension so
\* or dylib, the two the scan takes for provider libraries.
LibraryEntries ==
    {i \in DOMAIN seen : seen[i].kind = "file" /\ seen[i].ext \in {"so", "dylib"}}

\* The items a load_plugin call was made for.
Attempted == {attempts[k] : k \in DOMAIN attempts}

\* C19: the scan makes exactly one load attempt for each direct entry that
\* is not a directory and has a library extension (so or dylib), and none
\* for a subdirectory or an entry with another or no extension; which
\* entries are attempted follows from the directory contents alone, for
\* every list of capabilities the manifest declares.
C19_OneAttemptPerLibrary ==
    /\ \A k, l \in DOMAIN attempts : attempts[k] = attempts[l] => k = l
    /\ \A k, l \in DOMAIN attempts : k < l => attempts[k] < attempts[l]
    /\ Attempted \subseteq LibraryEntries
    /\ Len(attempts) = Cardinality(Calls("load_plugin"))
    /\ IF pc \in {"load_lock", "load_plugin"}
       THEN Attempted = LibraryEntries \ {Len(seen)}
       ELSE Attempted = LibraryEntries
    /\ \A i \in DOMAIN seen :
           (seen[i].kind = "dir" \/ seen[i].ext \in {"txt", "none", "nonutf8"}) =>
               i \notin Attempted

\* C19 witness: after a subdirectory named like a library and a text file,
\* the one library file was attempted although the manifest declares no
\* capability.
C19_Witness ==
    /\ ScanDone
    /\ claims = NoCaps
    /\ Len(seen) = 3
    /\ seen[1].kind = "dir" /\ seen[1].ext = "so"
    /\ seen[2].ext = "txt"
    /\ attempts = <<3>>

\* The service answered with a success status but no usable verdict: the
\* body could not be read, or it is no OpaReply.
NoVerdict ==
    /\ opa_url = "Some"
    /\ response.send = "ok"
    /\ Is2xx(response.status)
    /\ response.text = "err" \/ response.body = "garbage"

\* C20: the policy gate fails closed on an answer it cannot interpret: with
\* an endpoint configured, a success-status response whose body cannot be
\* read or does not decode to a verdict makes the policy check return an
\* error and the host is never started; while the answer is outstanding
\* nothing is published or started.
C20_FailClosedOnGarbage ==
    /\ NoVerdict =>
           /\ PolicyViolation
           /\ pc = "exited"
           /\ exit = "Err"
           /\ capman = EmptyRegistry
           /\ events = <<>>
           /\ ~host_started
    /\ pc = "await" =>
           /\ opa_result = "pending"
           /\ capman = EmptyRegistry
           /\ events = <<>>
           /\ ~host_started

\* C20 witness: a 200 OK reply whose body is no OpaReply ended the run with
\* the decoding error.
C20_Witness ==
    /\ NoVerdict
    /\ response.status = StatusOK
    /\ response.body = "garbage"
    /\ opa_result = "JsonError"
    /\ pc = "exited"

====
